---- MODULE Spec2Model ----
(***************************************************************************)
(* Cycle-aware scheduling engine of synctrack:                             *)
(*   backend/models/hormonal_cycle.py   (phase table, resolver, score,     *)
(*                                       date ranking)                     *)
(*   backend/services/calendar_service.py (busy times, slot search,        *)
(*                                       orchestrator, event creation)     *)
(*   backend/main.py                    (cycle and task stores, handlers)  *)
(*                                                                         *)
(* A datetime is an integer number of minutes; day 0 is a Monday.  Scores  *)
(* are kept in hundredths (0.8 is 80), which is exact for every constant   *)
(* of the score formula.                                                   *)
(***************************************************************************)
EXTENDS Integers, Sequences, FiniteSets, TLC

VARIABLES now, service, events, nextId, user_cycles, user_tasks, ret

vars == <<now, service, events, nextId, user_cycles, user_tasks, ret>>

(***************************************************************************)
(* Bounds of the model.                                                    *)
(***************************************************************************)
MaxDay == 0        \* the clock runs over days 0..MaxDay
MaxEvents == 2     \* events held by the external calendar
MaxTasks == 2      \* tasks stored per user

(***************************************************************************)
(* datetime arithmetic                                                     *)
(***************************************************************************)
MinutesPerHour == 60
MinutesPerDay == 1440

\* datetime.date(): the calendar day of an instant, time of day dropped
DateOf(t) == t \div MinutesPerDay

\* date.weekday(): Monday = 0 .. Sunday = 6
Weekday(d) == d % 7

\* datetime.combine(date, time(hour)) and datetime.replace(hour=h, minute=0, ...)
AtHour(d, h) == d * MinutesPerDay + h * MinutesPerHour

Abs(x) == IF x < 0 THEN -x ELSE x

Min(a, b) == IF a < b THEN a ELSE b

(***************************************************************************)
(* HormonalCycleManager.PHASE_PROFILES and TASK_OPTIMIZATIONS              *)
(***************************************************************************)
\* dict iteration order of PHASE_PROFILES
PhaseOrder == <<"menstrual", "follicular", "ovulatory", "luteal">>

CyclePhase == {PhaseOrder[i] : i \in 1..Len(PhaseOrder)}

PHASE_PROFILES ==
  [p \in CyclePhase |->
     CASE p = "menstrual"  -> [day_range |-> <<1, 5>>,   energy_level |-> 3, focus_level |-> 6]
       [] p = "follicular" -> [day_range |-> <<6, 13>>,  energy_level |-> 7, focus_level |-> 8]
       [] p = "ovulatory"  -> [day_range |-> <<14, 16>>, energy_level |-> 9, focus_level |-> 7]
       [] p = "luteal"     -> [day_range |-> <<17, 28>>, energy_level |-> 5, focus_level |-> 9]]

TASK_OPTIMIZATIONS ==
  << [energy_level |-> 8, focus_level |-> 7,  task_type |-> "creative",        optimal_phases |-> {"follicular", "ovulatory"}],
     [energy_level |-> 6, focus_level |-> 9,  task_type |-> "analytical",      optimal_phases |-> {"menstrual", "luteal"}],
     [energy_level |-> 8, focus_level |-> 6,  task_type |-> "physical",        optimal_phases |-> {"follicular", "ovulatory"}],
     [energy_level |-> 9, focus_level |-> 7,  task_type |-> "social",          optimal_phases |-> {"ovulatory"}],
     [energy_level |-> 5, focus_level |-> 9,  task_type |-> "administrative",  optimal_phases |-> {"luteal", "menstrual"}],
     [energy_level |-> 6, focus_level |-> 8,  task_type |-> "strategic",       optimal_phases |-> {"menstrual", "follicular"}],
     [energy_level |-> 5, focus_level |-> 10, task_type |-> "detail_oriented", optimal_phases |-> {"luteal", "menstrual"}],
     [energy_level |-> 8, focus_level |-> 7,  task_type |-> "communication",   optimal_phases |-> {"ovulatory", "follicular"}],
     [energy_level |-> 7, focus_level |-> 8,  task_type |-> "learning",        optimal_phases |-> {"follicular"}],
     [energy_level |-> 3, focus_level |-> 8,  task_type |-> "reflection",      optimal_phases |-> {"menstrual"}] >>

TaskType == {TASK_OPTIMIZATIONS[i].task_type : i \in 1..Len(TASK_OPTIMIZATIONS)}

\* CycleData field constraints (pydantic Field(ge=, le=))
CycleLengthMin == 21
CycleLengthMax == 35
PeriodLengthMin == 3
PeriodLengthMax == 8

(***************************************************************************)
(* HormonalCycleManager.get_phase_for_date                                 *)
(***************************************************************************)
\* the distance to the anchor taken without its sign
CycleDayForDate_mirrored(cycle_data, target_date) ==
  (Abs(DateOf(target_date) - DateOf(cycle_data.last_period_start))
     % cycle_data.cycle_length) + 1

\* whole days between the two instants, their times of day not dropped
CycleDayForDate_from_instants(cycle_data, target_date) ==
  (((target_date - cycle_data.last_period_start) \div MinutesPerDay)
     % cycle_data.cycle_length) + 1

\* the 1-based cycle day computed at lines 237-248
CycleDayForDate(cycle_data, target_date) ==
  LET last_period == DateOf(cycle_data.last_period_start)
      target == DateOf(target_date)
      days0 == target - last_period
      cycles_back == Abs(days0) \div cycle_data.cycle_length + 1
      adjusted_start == last_period - cycles_back * cycle_data.cycle_length
      days_since_period == IF days0 < 0 THEN target - adjusted_start ELSE days0
  IN  (days_since_period % cycle_data.cycle_length) + 1

\* the loop over PHASE_PROFILES.items(): first profile whose day_range holds
\* cycle_day, "luteal" when none does
PhaseOfCycleDay(cycle_day) ==
  LET hits == {i \in 1..Len(PhaseOrder) :
                 /\ PHASE_PROFILES[PhaseOrder[i]].day_range[1] <= cycle_day
                 /\ cycle_day <= PHASE_PROFILES[PhaseOrder[i]].day_range[2]}
  IN  IF hits = {} THEN "luteal"
      ELSE PhaseOrder[CHOOSE i \in hits : \A j \in hits : i <= j]

\* the day count since the anchor, never wrapped into the cycle
get_phase_for_date_unwrapped(cycle_data, target_date) ==
  PhaseOfCycleDay(DateOf(target_date) - DateOf(cycle_data.last_period_start) + 1)

get_phase_for_date(cycle_data, target_date) ==
  PhaseOfCycleDay(CycleDayForDate(cycle_data, target_date))

(***************************************************************************)
(* HormonalCycleManager.get_optimal_scheduling_score (hundredths)          *)
(***************************************************************************)
NEUTRAL_SCORE == 50

\* first entry of TASK_OPTIMIZATIONS with the task's type, 0 when none
FindTaskOpt(task_type) ==
  LET hits == {i \in 1..Len(TASK_OPTIMIZATIONS) : TASK_OPTIMIZATIONS[i].task_type = task_type}
  IN  IF hits = {} THEN 0 ELSE CHOOSE i \in hits : \A j \in hits : i <= j

\* the clamp left out
ClampScore_missing(x) == x

\* min(1.0, final_score + priority_boost)
ClampScore(x) == Min(100, x)

\* the score with the priority boost left out
get_optimal_scheduling_score_no_boost(task, target_date, cycle_data) ==
  LET phase == get_phase_for_date(cycle_data, target_date)
      phase_profile == PHASE_PROFILES[phase]
      k == FindTaskOpt(task.task_type)
      base_score == IF phase \in TASK_OPTIMIZATIONS[k].optimal_phases THEN 8 ELSE 3
      final_score == base_score * 5 + phase_profile.energy_level * 3
                     + phase_profile.focus_level * 2
  IN  IF k = 0 THEN NEUTRAL_SCORE ELSE ClampScore(final_score)

\* the score taken from the category's own energy and focus levels
get_optimal_scheduling_score_nominal(task, target_date, cycle_data) ==
  LET phase == get_phase_for_date(cycle_data, target_date)
      k == FindTaskOpt(task.task_type)
      base_score == IF phase \in TASK_OPTIMIZATIONS[k].optimal_phases THEN 8 ELSE 3
      final_score == base_score * 5 + TASK_OPTIMIZATIONS[k].energy_level * 3
                     + TASK_OPTIMIZATIONS[k].focus_level * 2
                     + (task.priority - 1) * 10
  IN  IF k = 0 THEN NEUTRAL_SCORE ELSE ClampScore(final_score)

\* the phase alignment weighted 0.1 instead of 0.5
get_optimal_scheduling_score_weak_affinity(task, target_date, cycle_data) ==
  LET phase == get_phase_for_date(cycle_data, target_date)
      phase_profile == PHASE_PROFILES[phase]
      k == FindTaskOpt(task.task_type)
      base_score == IF phase \in TASK_OPTIMIZATIONS[k].optimal_phases THEN 8 ELSE 3
      final_score == base_score * 1 + phase_profile.energy_level * 3
                     + phase_profile.focus_level * 2
      priority_boost == (task.priority - 1) * 10
  IN  IF k = 0 THEN NEUTRAL_SCORE ELSE ClampScore(final_score + priority_boost)

\* the neutral score raised by the priority boost
get_optimal_scheduling_score_neutral_boosted(task, target_date, cycle_data) ==
  LET phase == get_phase_for_date(cycle_data, target_date)
      phase_profile == PHASE_PROFILES[phase]
      k == FindTaskOpt(task.task_type)
      base_score == IF phase \in TASK_OPTIMIZATIONS[k].optimal_phases THEN 8 ELSE 3
      final_score == base_score * 5 + phase_profile.energy_level * 3
                     + phase_profile.focus_level * 2
      priority_boost == (task.priority - 1) * 10
  IN  IF k = 0 THEN ClampScore(NEUTRAL_SCORE + priority_boost)
      ELSE ClampScore(final_score + priority_boost)

get_optimal_scheduling_score(task, target_date, cycle_data) ==
  LET phase == get_phase_for_date(cycle_data, target_date)
      phase_profile == PHASE_PROFILES[phase]
      k == FindTaskOpt(task.task_type)
      base_score == IF phase \in TASK_OPTIMIZATIONS[k].optimal_phases THEN 8 ELSE 3
      phase_weight == 5
      energy_weight == 3
      focus_weight == 2
      final_score == base_score * phase_weight
                     + phase_profile.energy_level * energy_weight
                     + phase_profile.focus_level * focus_weight
      priority_boost == (task.priority - 1) * 10
  IN  IF k = 0 THEN NEUTRAL_SCORE ELSE ClampScore(final_score + priority_boost)

(***************************************************************************)
(* HormonalCycleManager.get_next_optimal_dates                             *)
(***************************************************************************)
TOP_K == 10

\* a sort that puts an entry before the entries of equal score
RECURSIVE InsertByScore_ties_first(_, _)
InsertByScore_ties_first(sorted, e) ==
  IF sorted = <<>> THEN <<e>>
  ELSE IF Head(sorted)[2] > e[2]
       THEN <<Head(sorted)>> \o InsertByScore_ties_first(Tail(sorted), e)
  ELSE <<e>> \o sorted

\* list.sort(key=score, reverse=True) is stable: an entry goes after every
\* entry whose score is at least its own
RECURSIVE InsertByScore(_, _)
InsertByScore(sorted, e) ==
  IF sorted = <<>> THEN <<e>>
  ELSE IF Head(sorted)[2] >= e[2] THEN <<Head(sorted)>> \o InsertByScore(Tail(sorted), e)
  ELSE <<e>> \o sorted

RECURSIVE SortByScore(_)
SortByScore(s) ==
  IF s = <<>> THEN <<>>
  ELSE InsertByScore(SortByScore(SubSeq(s, 1, Len(s) - 1)), s[Len(s)])

\* the ranking without the cut to the first ten
get_next_optimal_dates_uncapped(task, cycle_data, days_ahead, today) ==
  SortByScore([i \in 1..days_ahead |->
                 <<today + (i - 1) * MinutesPerDay,
                   get_optimal_scheduling_score(task, today + (i - 1) * MinutesPerDay,
                                                cycle_data)>>])

get_next_optimal_dates(task, cycle_data, days_ahead, today) ==
  LET optimal_dates == [i \in 1..days_ahead |->
                          LET target_date == today + (i - 1) * MinutesPerDay
                          IN  <<target_date, get_optimal_scheduling_score(task, target_date, cycle_data)>>]
      sorted == SortByScore(optimal_dates)
  IN  SubSeq(sorted, 1, Min(TOP_K, Len(sorted)))

(***************************************************************************)
(* The external calendar.  An event is [id, start, end, fmt]; fmt is the   *)
(* shape of the strings the API hands back for it:                         *)
(*   "date"   an all-day event ('date', no 'T' in the string),             *)
(*   "offset" a dateTime carrying 'Z' or a UTC offset,                     *)
(*   "naive"  a dateTime without any offset.                               *)
(***************************************************************************)
NoId == 0

\* datetime.fromisoformat(s.replace('Z', '+00:00')): the instant is kept, and
\* the value is timezone-aware exactly when the string carries an offset
FromIsoFormat(e) ==
  [start |-> e.start, end |-> e.end, aware |-> (e.fmt = "offset")]

\* the orders in which events().list(orderBy='startTime') may hand back evs
RECURSIVE StartOrders(_)
StartOrders(evs) ==
  IF evs = {} THEN {<<>>}
  ELSE UNION {{<<e>> \o o : o \in StartOrders(evs \ {e})} :
                e \in {e \in evs : \A f \in evs : e.start <= f.start}}

(***************************************************************************)
(* CalendarService.get_calendar_availability                               *)
(*   cal = [ok, order]: whether the list request succeeds, and the order   *)
(*   in which the calendar hands back its events.  events().list returns   *)
(*   the events that end after timeMin and start before timeMax.           *)
(***************************************************************************)
\* a calendar that cannot be read taken as busy throughout
get_calendar_availability_unread_busy(svc, cal, start_date, end_date) ==
  IF ~svc \/ ~cal.ok
  THEN <<[start |-> start_date, end |-> end_date, aware |-> FALSE]>>
  ELSE LET InWindow(e) == e.end > start_date /\ e.start < end_date
           IsDateTime(e) == e.fmt # "date"
           timed == SelectSeq(SelectSeq(cal.order, InWindow), IsDateTime)
       IN  [i \in 1..Len(timed) |-> FromIsoFormat(timed[i])]

get_calendar_availability(svc, cal, start_date, end_date) ==
  IF ~svc THEN <<>>
  ELSE IF ~cal.ok THEN <<>>
  ELSE LET InWindow(e) == e.end > start_date /\ e.start < end_date
           items == SelectSeq(cal.order, InWindow)
           IsDateTime(e) == e.fmt # "date"
           timed == SelectSeq(items, IsDateTime)
       IN  [i \in 1..Len(timed) |-> FromIsoFormat(timed[i])]

(***************************************************************************)
(* CalendarService.find_available_slots                                    *)
(***************************************************************************)
\* a conflict test that also rejects intervals meeting at an endpoint
Overlaps_closed(slot_start, slot_end, busy) ==
  slot_start <= busy.end /\ slot_end >= busy.start

\* the conflict test of line 188
Overlaps(slot_start, slot_end, busy) ==
  slot_start < busy.end /\ slot_end > busy.start

\* the loop over busy_times for one candidate: "busy" on the first conflict
\* (break), "raise" when a naive slot bound is compared with an aware busy
\* time (TypeError), "free" when the loop runs out
RECURSIVE CheckSlot(_, _, _)
CheckSlot(slot_start, slot_end, busy_times) ==
  IF busy_times = <<>> THEN "free"
  ELSE IF Head(busy_times).aware THEN "raise"
  ELSE IF Overlaps(slot_start, slot_end, Head(busy_times)) THEN "busy"
  ELSE CheckSlot(slot_start, slot_end, Tail(busy_times))

\* a range that takes in the closing hour
HourRange_inclusive(working_hours) ==
  [i \in 1..(IF working_hours[2] >= working_hours[1]
             THEN working_hours[2] - working_hours[1] + 1 ELSE 0) |->
     working_hours[1] + i - 1]

\* range(working_hours[0], working_hours[1]) as a sequence
HourRange(working_hours) ==
  [i \in 1..(IF working_hours[2] > working_hours[1]
             THEN working_hours[2] - working_hours[1] ELSE 0) |->
     working_hours[1] + i - 1]

\* a week whose only day off is Sunday
IsWeekend_sunday_only(d) == Weekday(d) >= 6

\* current_date.weekday() >= 5
IsWeekend(d) == Weekday(d) >= 5

\* the candidates of one day, in hour order; none on a weekend
DayCandidates(d, duration_minutes, working_hours) ==
  IF IsWeekend(d) THEN <<>>
  ELSE LET hours == HourRange(working_hours)
       IN  [i \in 1..Len(hours) |->
              [start |-> AtHour(d, hours[i]),
               end |-> AtHour(d, hours[i]) + duration_minutes,
               duration |-> duration_minutes]]

\* the while loop over current_date <= end_date_only
RECURSIVE Candidates(_, _, _, _)
Candidates(current_date, end_date_only, duration_minutes, working_hours) ==
  IF current_date > end_date_only THEN <<>>
  ELSE DayCandidates(current_date, duration_minutes, working_hours)
       \o Candidates(current_date + 1, end_date_only, duration_minutes, working_hours)

find_available_slots(svc, cal, start_date, end_date, duration_minutes, working_hours) ==
  LET busy_times == get_calendar_availability(svc, cal, start_date, end_date)
      cands == Candidates(DateOf(start_date), DateOf(end_date), duration_minutes, working_hours)
      IsFree(c) == CheckSlot(c.start, c.end, busy_times) = "free"
      raised == \E i \in 1..Len(cands) : CheckSlot(cands[i].start, cands[i].end, busy_times) = "raise"
  IN  [busy_times |-> busy_times,
       raised |-> raised,
       slots |-> IF raised THEN <<>> ELSE SelectSeq(cands, IsFree)]

(***************************************************************************)
(* CalendarService.create_calendar_event                                   *)
(*   ins = [ok, fmt]: whether events().insert succeeds, and the shape in   *)
(*   which the calendar will hand the new event back.                      *)
(***************************************************************************)
create_calendar_event_no_duration(svc, ins, id, task, scheduled_time, duration_minutes) ==
  IF ~svc THEN [event_id |-> NoId, created |-> {}]
  ELSE IF ~ins.ok THEN [event_id |-> NoId, created |-> {}]
  ELSE [event_id |-> id,
        created |-> {[start |-> scheduled_time, end |-> scheduled_time, fmt |-> ins.fmt, id |-> id]}]

create_calendar_event(svc, ins, id, task, scheduled_time, duration_minutes) ==
  LET duration == IF duration_minutes # 0 THEN duration_minutes ELSE task.estimated_duration
      end_time == scheduled_time + duration
  IN  IF ~svc THEN [event_id |-> NoId, created |-> {}]
      ELSE IF ~ins.ok THEN [event_id |-> NoId, created |-> {}]
      ELSE [event_id |-> id,
            created |-> {[start |-> scheduled_time, end |-> end_time, fmt |-> ins.fmt, id |-> id]}]

(***************************************************************************)
(* CalendarService.schedule_task_optimally                                 *)
(***************************************************************************)
\* the last slot of the day
BestSlot_last(available_slots) == available_slots[Len(available_slots)]

\* best_slot = available_slots[0]
BestSlot(available_slots) == available_slots[1]

\* the for loop over optimal_dates from position i on
RECURSIVE ScheduleFrom(_, _, _, _, _, _, _, _, _)
ScheduleFrom(i, optimal_dates, svc, cal, ins, id, task, cycle_data, working_hours) ==
  IF i > Len(optimal_dates) THEN [created |-> {}, status |-> "none"]
  ELSE
    LET optimal_date == optimal_dates[i][1]
        cycle_score == optimal_dates[i][2]
        start_of_day == AtHour(DateOf(optimal_date), working_hours[1])
        end_of_day == AtHour(DateOf(optimal_date), working_hours[2])
        found == find_available_slots(svc, cal, start_of_day, end_of_day,
                                      task.estimated_duration, working_hours)
    IN  IF found.raised THEN [created |-> {}, status |-> "raise"]
        ELSE IF found.slots # <<>> THEN
          LET best_slot == BestSlot(found.slots)
              made == create_calendar_event(svc, ins, id, task, best_slot.start,
                                            task.estimated_duration)
          IN  [scheduled_time |-> best_slot.start,
               created |-> made.created,
               end_time |-> best_slot.end,
               status |-> "ok",
               cycle_score |-> cycle_score,
               hormonal_phase |-> get_phase_for_date(cycle_data, optimal_date),
               calendar_event_id |-> made.event_id,
               rank_index |-> i]
        ELSE ScheduleFrom(i + 1, optimal_dates, svc, cal, ins, id, task, cycle_data, working_hours)

schedule_task_optimally(svc, cal, ins, id, task, cycle_data, days_ahead, working_hours, today) ==
  ScheduleFrom(1, get_next_optimal_dates(task, cycle_data, days_ahead, today),
               svc, cal, ins, id, task, cycle_data, working_hours)

(***************************************************************************)
(* Inputs of the operations                                                *)
(***************************************************************************)
Users == {"u1"}

None == [none |-> TRUE]

Idle == [op |-> "idle"]

\* last_period_start values: an anchor 16 days back (late evening) and an
\* anchor 3 days ahead (early morning)
AnchorInstants == {AtHour(-16, 22), AtHour(3, 7)}

\* cycle lengths tried by the handlers (the manager calls try all of 21..35)
CycleLengthInputs == {28, 30}

PeriodLengthInputs == {5}

\* lengths posted to the setup handlers: the ones above and the first values
\* outside the ranges of CycleData
SetupCycleLengthInputs == CycleLengthInputs \cup {CycleLengthMin - 1, CycleLengthMax + 1}

SetupPeriodLengthInputs == PeriodLengthInputs \cup {PeriodLengthMax + 1}

\* anchors posted to simple_backend: the ones above and one four days back
SimpleAnchorInstants == AnchorInstants \cup {AtHour(-4, 9)}

PriorityInputs == 1..5

\* categories of the tasks handed to the manager: the ten of TaskType and one
\* that TASK_OPTIMIZATIONS does not list (Task does not validate an
\* assignment to task_type)
ScoredTaskTypes == TaskType \cup {"unlisted"}

\* tasks handed to the calendar service and to the handlers
TaskInputs ==
  { [task_type |-> "social",     priority |-> 1,  estimated_duration |-> 60],
    [task_type |-> "social",     priority |-> 3, estimated_duration |-> 150],
    [task_type |-> "analytical", priority |-> 5,  estimated_duration |-> 60],
    [task_type |-> "reflection", priority |-> 1,  estimated_duration |-> 60] }

DurationInputs == {60, 150}

DEFAULT_WORKING_HOURS == <<9, 17>>

WorkingHoursInputs == {DEFAULT_WORKING_HOURS, <<10, 12>>}

\* days_ahead passed by main.schedule_task, and the default of the manager
SCHEDULE_DAYS_AHEAD == 14
DEFAULT_DAYS_AHEAD == 30

DaysAheadInputs == {3, SCHEDULE_DAYS_AHEAD, DEFAULT_DAYS_AHEAD}

\* target dates handed to get_phase_for_date: the days from 40 before to 40
\* after day 0, at the first and at the last hour of the day
TargetInstants == {AtHour(d, h) : d \in (-40)..40, h \in {0, 23}}

\* events somebody else puts into the calendar: Tuesday mid-morning, all of
\* Monday's working day, and three weeks without a break
ExternalEvents ==
  { [start |-> AtHour(1, 10), end |-> AtHour(1, 11), fmt |-> "naive", id |-> NoId],
    [start |-> AtHour(1, 10), end |-> AtHour(1, 11), fmt |-> "offset", id |-> NoId],
    [start |-> AtHour(0, 9), end |-> AtHour(0, 17),  fmt |-> "naive", id |-> NoId],
    [start |-> AtHour(0, 0), end |-> AtHour(21, 0),  fmt |-> "naive", id |-> NoId],
    [start |-> AtHour(0, 0), end |-> AtHour(21, 0),  fmt |-> "offset", id |-> NoId],
    [start |-> AtHour(0, 0), end |-> AtHour(21, 0),  fmt |-> "date", id |-> NoId] }

\* tasks posted to main.schedule_task
HandlerTaskInputs ==
  {t \in TaskInputs : t.task_type = "analytical" \/ t.estimated_duration = 150}

\* events added to the calendar while the handlers of main.py run: Monday's
\* working day, an offset-carrying event on Tuesday, three weeks without a
\* break
HandlerEvents ==
  {e \in ExternalEvents :
     \/ (e.fmt = "naive" /\ e.start # AtHour(1, 10))
     \/ (e.fmt = "offset" /\ e.start = AtHour(1, 10))}

\* (start_date, end_date) pairs handed to find_available_slots directly:
\* a Tuesday, a Saturday, and Friday through Monday
SlotRanges(working_hours) ==
  { <<AtHour(1, working_hours[1]), AtHour(1, working_hours[2])>>,
    <<AtHour(5, working_hours[1]), AtHour(5, working_hours[2])>>,
    <<AtHour(4, working_hours[1]), AtHour(7, working_hours[2])>> }

\* what the calendar API may do on a list request: nothing to choose when
\* there is no service, since no request is made
CalChoices(svc, evs) ==
  IF svc THEN [ok : BOOLEAN, order : StartOrders(evs)]
  ELSE {[ok |-> FALSE, order |-> <<>>]}

\* what the calendar API may do on an insert request
InsChoices(svc) ==
  IF svc THEN {[fmt |-> "naive", ok |-> FALSE], [fmt |-> "naive", ok |-> TRUE],
               [fmt |-> "offset", ok |-> TRUE]}
  ELSE {[fmt |-> "naive", ok |-> FALSE]}

\* the instants the clock takes: 08:00 and 20:00 of the days 0..MaxDay
ClockInstants == {AtHour(d, h) : d \in 0..MaxDay, h \in {8, 20}}

\* CycleData(...) validation: Field(ge=21, le=35), Field(ge=3, le=8)
CycleDataValid(cycle_length, period_length) ==
  /\ CycleLengthMin <= cycle_length /\ cycle_length <= CycleLengthMax
  /\ PeriodLengthMin <= period_length /\ period_length <= PeriodLengthMax

CycleData(u, last_period_start, cycle_length, period_length) ==
  [last_period_start |-> last_period_start, cycle_length |-> cycle_length,
   period_length |-> period_length, user_id |-> u]

\* Task.scheduled_at = None: an instant no slot starts at (slots start on the
\* hour)
Unscheduled == -1

\* Task(...): id and scheduled_at are absent until the task is stored
NewTask(task_input) ==
  [task_type |-> task_input.task_type, priority |-> task_input.priority,
   id |-> NoId,
   estimated_duration |-> task_input.estimated_duration, scheduled_at |-> Unscheduled]

\* the cycle_day of HormonalCycleManager.get_current_phase (lines 221-226)
CurrentCycleDay(cycle_data, today) ==
  LET last_period == DateOf(cycle_data.last_period_start)
      days_since_period == DateOf(today) - last_period
  IN  (days_since_period % cycle_data.cycle_length) + 1

\* HormonalCycleManager.get_current_phase
get_current_phase(cycle_data, today) ==
  PhaseOfCycleDay(CurrentCycleDay(cycle_data, today))

(***************************************************************************)
(* State                                                                   *)
(*   now          the wall clock (datetime.now())                          *)
(*   service      CalendarService.service is not None                      *)
(*   events       the events of the external primary calendar              *)
(*   nextId       the id the calendar gives the next inserted event        *)
(*   user_cycles  main.user_cycles                                         *)
(*   user_tasks   main.user_tasks                                          *)
(*   ret          the call in flight: its arguments and what it returned;  *)
(*                Idle when none is                                        *)
(***************************************************************************)
Init ==
  /\ now = AtHour(0, 8)
  /\ service \in BOOLEAN
  /\ events = {}
  /\ nextId = 1
  /\ user_cycles = [u \in Users |-> None]
  /\ user_tasks = [u \in Users |-> <<>>]
  /\ ret = Idle

\* time passes
Tick ==
  /\ ret = Idle
  /\ DateOf(now + 12 * MinutesPerHour) <= MaxDay
  /\ now' = now + 12 * MinutesPerHour
  /\ UNCHANGED <<service, events, nextId, user_cycles, user_tasks, ret>>

\* somebody adds an event to the calendar outside this program
ExternalAddEvent(e) ==
  /\ ret = Idle
  /\ Cardinality(events) < MaxEvents
  /\ e \notin events
  /\ events' = events \cup {e}
  /\ UNCHANGED <<now, service, nextId, user_cycles, user_tasks, ret>>

\* the response of the call in flight is delivered
Respond ==
  /\ ret # Idle
  /\ ret' = Idle
  /\ UNCHANGED <<now, service, events, nextId, user_cycles, user_tasks>>

\* main.setup_user_cycle (POST /api/cycle/setup)
SetupUserCycle(u, last_period_start, cycle_length, period_length) ==
  LET cycle_data == CycleData(u, last_period_start, cycle_length, period_length)
  IN  /\ ret = Idle
      /\ IF CycleDataValid(cycle_length, period_length)
         THEN /\ user_cycles' = [user_cycles EXCEPT ![u] = cycle_data]
              /\ ret' = [status |-> 200, op |-> "setup_user_cycle",
                         current_phase |-> get_current_phase(cycle_data, now)]
         ELSE /\ user_cycles' = user_cycles
              /\ ret' = [status |-> 400, op |-> "setup_user_cycle"]
      /\ UNCHANGED <<now, service, events, nextId, user_tasks>>

\* main.get_current_phase (GET /api/cycle/{user_id}/current)
GetCurrentPhase(u) ==
  /\ ret = Idle
  /\ IF user_cycles[u] = None
     THEN ret' = [status |-> 404, op |-> "main.get_current_phase",
                  detail |-> "User cycle data not found"]
     ELSE LET cycle_data == user_cycles[u]
              current_phase == get_current_phase(cycle_data, now)
          IN  ret' = [cycle_data |-> cycle_data, phase |-> current_phase, today |-> now,
                      status |-> 200, op |-> "main.get_current_phase",
                      day_in_cycle |-> DateOf(now) - DateOf(cycle_data.last_period_start) + 1]
  /\ UNCHANGED <<now, service, events, nextId, user_cycles, user_tasks>>

\* a call of HormonalCycleManager.get_optimal_scheduling_score
Score(u, task, offset) ==
  /\ ret = Idle
  /\ user_cycles[u] # None
  /\ ret' = [cycle_data |-> user_cycles[u], target_date |-> now + offset * MinutesPerDay, task |-> task,
             op |-> "score",
             score |-> get_optimal_scheduling_score(task, now + offset * MinutesPerDay,
                                                    user_cycles[u])]
  /\ UNCHANGED <<now, service, events, nextId, user_cycles, user_tasks>>

\* a call of HormonalCycleManager.get_next_optimal_dates
Rank(u, task, days_ahead) ==
  /\ ret = Idle
  /\ user_cycles[u] # None
  /\ ret' = [cycle_data |-> user_cycles[u], task |-> task, days_ahead |-> days_ahead,
             today |-> now, optimal_dates |-> get_next_optimal_dates(task, user_cycles[u], days_ahead, now),
             op |-> "rank"]
  /\ UNCHANGED <<now, service, events, nextId, user_cycles, user_tasks>>

\* a call of HormonalCycleManager.get_phase_for_date
PhaseForDate(u, target_date) ==
  /\ ret = Idle
  /\ user_cycles[u] # None
  /\ ret' = [cycle_data |-> user_cycles[u], target_date |-> target_date,
             cycle_day |-> CycleDayForDate(user_cycles[u], target_date),
             phase |-> get_phase_for_date(user_cycles[u], target_date),
             op |-> "get_phase_for_date"]
  /\ UNCHANGED <<now, service, events, nextId, user_cycles, user_tasks>>

\* a call of HormonalCycleManager.get_current_phase
CurrentPhase(u) ==
  /\ ret = Idle
  /\ user_cycles[u] # None
  /\ ret' = [cycle_data |-> user_cycles[u], cycle_day |-> CurrentCycleDay(user_cycles[u], now),
             phase |-> get_current_phase(user_cycles[u], now),
             today |-> now,
             op |-> "get_current_phase"]
  /\ UNCHANGED <<now, service, events, nextId, user_cycles, user_tasks>>

\* a call of CalendarService.find_available_slots
FindAvailableSlots(cal, range, duration_minutes, working_hours) ==
  /\ ret = Idle
  /\ ret' = [cal |-> cal, start_date |-> range[1],
             end_date |-> range[2], working_hours |-> working_hours,
             duration_minutes |-> duration_minutes, found |-> find_available_slots(service, cal, range[1], range[2],
                                            duration_minutes, working_hours),
             op |-> "find_available_slots"]
  /\ UNCHANGED <<now, service, events, nextId, user_cycles, user_tasks>>

\* a call of CalendarService.schedule_task_optimally
ScheduleTaskOptimally(u, cal, ins, task, working_hours) ==
  /\ ret = Idle
  /\ user_cycles[u] # None
  /\ \E result \in {schedule_task_optimally(service, cal, ins, nextId, task, user_cycles[u],
                                              SCHEDULE_DAYS_AHEAD, working_hours, now)} :
         /\ events' = events \cup result.created
         /\ nextId' = IF result.created = {} THEN nextId ELSE nextId + 1
         /\ ret' = [cycle_data |-> user_cycles[u], task |-> task, today |-> now,
                    cal |-> cal, working_hours |-> working_hours,
                    op |-> "schedule_task_optimally", result |-> result]
  /\ UNCHANGED <<now, service, user_cycles, user_tasks>>

\* a handler that stores the task before it looks at the orchestrator's result
ScheduleTask_stored_first(u, cal, ins, task_input, working_hours) ==
  /\ ret = Idle
  /\ Cardinality(events) < MaxEvents
  /\ Len(user_tasks[u]) < MaxTasks
  /\ IF user_cycles[u] = None
     THEN /\ ret' = [status |-> 500, op |-> "schedule_task", detail |-> "User cycle data not found"]
          /\ UNCHANGED <<events, nextId, user_tasks>>
     ELSE
       LET task == NewTask(task_input)
       IN  \E scheduling_result \in
                {schedule_task_optimally(service, cal, ins, nextId, task, user_cycles[u],
                                         SCHEDULE_DAYS_AHEAD, working_hours, now)} :
           IF scheduling_result.status = "raise"
           THEN /\ ret' = [status |-> 500, op |-> "schedule_task", detail |-> "TypeError"]
                /\ UNCHANGED <<events, nextId, user_tasks>>
           ELSE IF scheduling_result.status = "none"
           THEN /\ ret' = [status |-> 500, op |-> "schedule_task",
                           detail |-> "Could not find optimal scheduling slot"]
                /\ user_tasks' = [user_tasks EXCEPT ![u] = Append(@, task)]
                /\ UNCHANGED <<events, nextId>>
           ELSE LET stored == [task EXCEPT !.scheduled_at = scheduling_result.scheduled_time,
                                           !.id = scheduling_result.calendar_event_id]
                IN  /\ events' = events \cup scheduling_result.created
                    /\ nextId' = IF scheduling_result.created = {} THEN nextId ELSE nextId + 1
                    /\ user_tasks' = [user_tasks EXCEPT ![u] = Append(@, stored)]
                    /\ ret' = [task |-> stored, status |-> 200, op |-> "schedule_task",
                               scheduling |-> scheduling_result]
  /\ UNCHANGED <<now, service, user_cycles>>

\* main.schedule_task (POST /api/tasks/schedule)
ScheduleTask(u, cal, ins, task_input, working_hours) ==
  /\ ret = Idle
  /\ Cardinality(events) < MaxEvents
  /\ Len(user_tasks[u]) < MaxTasks
  /\ IF user_cycles[u] = None
     THEN /\ ret' = [status |-> 500, op |-> "schedule_task", detail |-> "User cycle data not found"]
          /\ UNCHANGED <<events, nextId, user_tasks>>
     ELSE
       LET task == NewTask(task_input)
       IN  \E scheduling_result \in
                {schedule_task_optimally(service, cal, ins, nextId, task, user_cycles[u],
                                         SCHEDULE_DAYS_AHEAD, working_hours, now)} :
           IF scheduling_result.status = "raise"
           THEN /\ ret' = [status |-> 500, op |-> "schedule_task", detail |-> "TypeError"]
                /\ UNCHANGED <<events, nextId, user_tasks>>
           ELSE IF scheduling_result.status = "none"
           THEN /\ ret' = [status |-> 500, op |-> "schedule_task",
                           detail |-> "Could not find optimal scheduling slot"]
                /\ UNCHANGED <<events, nextId, user_tasks>>
           ELSE LET stored == [task EXCEPT !.scheduled_at = scheduling_result.scheduled_time,
                                           !.id = scheduling_result.calendar_event_id]
                IN  /\ events' = events \cup scheduling_result.created
                    /\ nextId' = IF scheduling_result.created = {} THEN nextId ELSE nextId + 1
                    /\ user_tasks' = [user_tasks EXCEPT ![u] = Append(@, stored)]
                    /\ ret' = [task |-> stored, status |-> 200, op |-> "schedule_task",
                               scheduling |-> scheduling_result]
  /\ UNCHANGED <<now, service, user_cycles>>

(***************************************************************************)
(* The request handlers of main.py over the stores and the calendar.       *)
(***************************************************************************)
Next ==
  \/ Tick
  \/ Respond
  \/ \E e \in HandlerEvents : ExternalAddEvent(e)
  \/ \E u \in Users, a \in AnchorInstants, l \in SetupCycleLengthInputs,
          p \in SetupPeriodLengthInputs :
       SetupUserCycle(u, a, l, p)
  \/ \E u \in Users : GetCurrentPhase(u)
  \/ \E u \in Users, t \in HandlerTaskInputs :
       \E c \in CalChoices(service, events), i \in InsChoices(service) :
         ScheduleTask(u, c, i, t, DEFAULT_WORKING_HOURS)

Spec == Init /\ [][Next]_vars

(***************************************************************************)
(* simple_backend.py: a second application with stores of its own; in      *)
(* SimpleSpec user_cycles and user_tasks are simple_backend.user_cycles    *)
(* and simple_backend.user_tasks.                                          *)
(***************************************************************************)
\* simple_backend.get_current_phase; its PHASE_PROFILES has the day_ranges
\* of the manager's, in the same order
simple_get_current_phase(cycle_data, today) ==
  LET last_period == DateOf(cycle_data.last_period_start)
      days_since_period == DateOf(today) - last_period
      cycle_day == (days_since_period % cycle_data.cycle_length) + 1
  IN  PhaseOfCycleDay(cycle_day)

\* the cycle_score simple_backend.schedule_task reports (0.8)
SIMPLE_CYCLE_SCORE == 80

\* simple_backend.setup_cycle (POST /api/cycle/setup): its CycleData has no
\* Field constraints
SetupCycle(u, last_period_start, cycle_length, period_length) ==
  LET cycle_data == CycleData(u, last_period_start, cycle_length, period_length)
  IN  /\ ret = Idle
      /\ user_cycles' = [user_cycles EXCEPT ![u] = cycle_data]
      /\ ret' = [status |-> 200, op |-> "simple_backend.setup_cycle",
                 current_phase |-> simple_get_current_phase(cycle_data, now)]
      /\ UNCHANGED <<now, service, events, nextId, user_tasks>>

\* simple_backend.get_current_phase_info (GET /api/cycle/{user_id}/current)
GetCurrentPhaseInfo(u) ==
  /\ ret = Idle
  /\ IF user_cycles[u] = None
     THEN ret' = [status |-> 404, op |-> "simple_backend.get_current_phase_info",
                  detail |-> "User cycle data not found"]
     ELSE LET cycle_data == user_cycles[u]
              current_phase == simple_get_current_phase(cycle_data, now)
              last_period == DateOf(cycle_data.last_period_start)
              days_since_period == DateOf(now) - last_period
              cycle_day == (days_since_period % cycle_data.cycle_length) + 1
          IN  ret' = [cycle_data |-> cycle_data, phase |-> current_phase, today |-> now,
                      status |-> 200,
                      op |-> "simple_backend.get_current_phase_info", day_in_cycle |-> cycle_day]
  /\ UNCHANGED <<now, service, events, nextId, user_cycles, user_tasks>>

\* simple_backend.schedule_task (POST /api/tasks/schedule)
SimpleScheduleTask(u, task) ==
  /\ ret = Idle
  /\ Len(user_tasks[u]) < MaxTasks
  /\ IF user_cycles[u] = None
     THEN /\ ret' = [status |-> 404, op |-> "simple_backend.schedule_task",
                     detail |-> "User cycle data not found"]
          /\ user_tasks' = user_tasks
     ELSE
       LET scheduled_time == AtHour(DateOf(now + MinutesPerDay), 10)
           cycle_data == user_cycles[u]
           current_phase == simple_get_current_phase(cycle_data, now)
           task_data == [task_type |-> task.task_type, phase |-> current_phase,
                         priority |-> task.priority,
                         estimated_duration |-> task.estimated_duration, scheduled_at |-> scheduled_time]
       IN  /\ user_tasks' = [user_tasks EXCEPT ![u] = Append(@, task_data)]
           /\ ret' = [cycle_data |-> cycle_data, task |-> task_data, status |-> 200,
                      op |-> "simple_backend.schedule_task",
                      scheduling |-> [scheduled_time |-> scheduled_time,
                                      cycle_score |-> SIMPLE_CYCLE_SCORE,
                                      hormonal_phase |-> current_phase]]
  /\ UNCHANGED <<now, service, events, nextId, user_cycles>>

SimpleInit ==
  /\ now = AtHour(0, 8)
  /\ service = FALSE
  /\ events = {}
  /\ nextId = 1
  /\ user_cycles = [u \in Users |-> None]
  /\ user_tasks = [u \in Users |-> <<>>]
  /\ ret = Idle

SimpleNext ==
  \/ Tick
  \/ Respond
  \/ \E u \in Users, a \in SimpleAnchorInstants, l \in SetupCycleLengthInputs,
          p \in SetupPeriodLengthInputs :
       SetupCycle(u, a, l, p)
  \/ \E u \in Users : GetCurrentPhaseInfo(u)
  \/ \E u \in Users, t \in TaskInputs : SimpleScheduleTask(u, t)

SimpleSpec == SimpleInit /\ [][SimpleNext]_vars

(***************************************************************************)
(* Calls of HormonalCycleManager, for every stored anchor and clock.       *)
(***************************************************************************)
ManagerInit ==
  /\ now \in ClockInstants
  /\ service = FALSE
  /\ events = {}
  /\ nextId = 1
  /\ user_cycles \in [Users -> {CycleData("u1", a, l, p) :
                                  a \in AnchorInstants,
                                  l \in CycleLengthMin..CycleLengthMax,
                                  p \in PeriodLengthInputs}]
  /\ user_tasks = [u \in Users |-> <<>>]
  /\ ret = Idle

ManagerNext ==
  \/ \E u \in Users, t \in TargetInstants : PhaseForDate(u, t)
  \/ \E u \in Users : CurrentPhase(u)
  \/ \E u \in Users, ty \in ScoredTaskTypes, pr \in PriorityInputs, k \in 0..(SCHEDULE_DAYS_AHEAD - 1) :
       Score(u, NewTask([task_type |-> ty, priority |-> pr, estimated_duration |-> 60]), k)
  \/ \E u \in Users, ty \in ScoredTaskTypes, pr \in PriorityInputs, n \in DaysAheadInputs :
       Rank(u, NewTask([task_type |-> ty, priority |-> pr, estimated_duration |-> 60]), n)

ManagerSpec == ManagerInit /\ [][ManagerNext]_vars

(***************************************************************************)
(* Calls of CalendarService, for every calendar, stored anchor and clock.  *)
(***************************************************************************)
CalendarInit ==
  /\ now \in ClockInstants
  /\ service \in BOOLEAN
  /\ events \in {evs \in SUBSET ExternalEvents : Cardinality(evs) <= MaxEvents}
  /\ nextId = 1
  /\ user_cycles \in [Users -> {CycleData("u1", a, l, p) :
                                  a \in AnchorInstants,
                                  l \in CycleLengthInputs,
                                  p \in PeriodLengthInputs}]
  /\ user_tasks = [u \in Users |-> <<>>]
  /\ ret = Idle

CalendarNext ==
  \/ \E w \in WorkingHoursInputs, d \in DurationInputs, c \in CalChoices(service, events) :
       \E r \in SlotRanges(w) : FindAvailableSlots(c, r, d, w)
  \/ \E u \in Users, t \in TaskInputs, w \in WorkingHoursInputs :
       \E c \in CalChoices(service, events), i \in InsChoices(service) :
         ScheduleTaskOptimally(u, c, i, NewTask(t), w)

CalendarSpec == CalendarInit /\ [][CalendarNext]_vars

(***************************************************************************)
(* Properties                                                              *)
(***************************************************************************)
\* the clock at Monday 08:00 and the stored anchor 16 days back with the
\* given cycle length: the setting the witnesses below are taken in
Setting(cycle_length) ==
  /\ now = AtHour(0, 8)
  /\ user_cycles["u1"] = CycleData("u1", AtHour(-16, 22), cycle_length, 5)

\* the phases whose day_range holds a cycle day
PhasesOfDay(day) ==
  {p \in CyclePhase : PHASE_PROFILES[p].day_range[1] <= day
                      /\ day <= PHASE_PROFILES[p].day_range[2]}

\* C1: for every stored anchor, every cycle day 1..cycle_length lies in the
\* day_range of exactly one phase profile (no gap, no overlap).
C1_PhasesPartitionCycle ==
  \A u \in Users :
    user_cycles[u] # None =>
      \A day \in 1..user_cycles[u].cycle_length : Cardinality(PhasesOfDay(day)) = 1

\* C2: find_available_slots called with a duration longer than the working
\* window returns no slot, whatever the day and the busy intervals.
C2_TooLongFindsNothing ==
  (/\ ret.op = "find_available_slots"
   /\ ~ret.found.raised
   /\ ret.duration_minutes > (ret.working_hours[2] - ret.working_hours[1]) * MinutesPerHour)
  => ret.found.slots = <<>>

RescoredAtSlot ==
  get_optimal_scheduling_score(ret.task, ret.result.scheduled_time, ret.cycle_data)

\* the last orchestrator call returned a slot for a task with an affinity entry
ScheduledWithAffinity ==
  /\ ret.op = "schedule_task_optimally"
  /\ ret.result.status = "ok"
  /\ FindTaskOpt(ret.task.task_type) # 0

\* C4 as stated: a task with an affinity entry that was given a slot scores
\* at least 0.5 on the date of that slot.
C4_RoundTripAtLeastNeutral ==
  ScheduledWithAffinity => RescoredAtSlot >= NEUTRAL_SCORE

\* C4 as amended: a task with an affinity entry that was given a slot scores
\* at least 0.5 on the date of that slot, except when that date's phase is
\* not one of the category's optimal phases and is luteal with priority 1 or
\* menstrual with priority 1 or 2; the score is then below 0.5 (and at
\* least 0.36).
C4_RoundTripBound ==
  ScheduledWithAffinity =>
    LET phase == get_phase_for_date(ret.cycle_data, ret.result.scheduled_time)
        opt == TASK_OPTIMIZATIONS[FindTaskOpt(ret.task.task_type)]
        low == /\ phase \notin opt.optimal_phases
               /\ \/ phase = "luteal" /\ ret.task.priority = 1
                  \/ phase = "menstrual" /\ ret.task.priority <= 2
    IN  /\ (RescoredAtSlot < NEUTRAL_SCORE) <=> low
        /\ RescoredAtSlot >= 36

\* C4 witness: a scheduled task whose score at its slot is below 0.5
C4_Witness ==
  /\ Setting(28)
  /\ ~service
  /\ events = {}
  /\ ScheduledWithAffinity
  /\ ret.working_hours = DEFAULT_WORKING_HOURS
  /\ ret.task.task_type = "social"
  /\ ret.task.priority = 1
  /\ RescoredAtSlot < NEUTRAL_SCORE

\* C5: get_optimal_scheduling_score returns a value in [0.0, 1.0].
C5_ScoreInUnitInterval ==
  ret.op = "score" => (0 <= ret.score /\ ret.score <= 100)

\* C5 witness: a score that the clamp cut down to 1.0
C5_Witness ==
  /\ Setting(28)
  /\ ret.op = "score"
  /\ ret.task.task_type = "analytical"
  /\ ret.target_date = now
  /\ ret.score = 100
  /\ ret.task.priority = 5

\* C6: get_next_optimal_dates returns its entries in non-increasing score
\* order, and of two entries with the same score the earlier date comes first.
C6_RankOrder ==
  ret.op = "rank" =>
    \A i, j \in 1..Len(ret.optimal_dates) :
      i < j => /\ ret.optimal_dates[i][2] >= ret.optimal_dates[j][2]
               /\ ret.optimal_dates[i][2] = ret.optimal_dates[j][2]
                    => ret.optimal_dates[i][1] < ret.optimal_dates[j][1]

\* C6 witness: a ranking with two entries of equal score and with a later
\* date ranked ahead of an earlier one
C6_Witness ==
  /\ Setting(21)
  /\ ret.op = "rank"
  /\ ret.task.task_type = "creative"
  /\ ret.task.priority = 1
  /\ ret.days_ahead = SCHEDULE_DAYS_AHEAD
  /\ \E i, j \in 1..Len(ret.optimal_dates) :
       i < j /\ ret.optimal_dates[i][2] = ret.optimal_dates[j][2]
  /\ \E i, j \in 1..Len(ret.optimal_dates) :
       i < j /\ ret.optimal_dates[i][1] > ret.optimal_dates[j][1]

\* the busy intervals the calendar reports for the working window of the day
\* of instant t, in the last call
BusyOfDay(t) ==
  get_calendar_availability(service, ret.cal,
                            AtHour(DateOf(t), ret.working_hours[1]),
                            AtHour(DateOf(t), ret.working_hours[2]))

\* the starts of the whole-hour slots of the given length on the day of
\* instant t that overlap none of the busy intervals; none on a weekend
FreeStarts(t, duration_minutes, working_hours, busy) ==
  {AtHour(DateOf(t), h) : h \in
     {h \in working_hours[1]..(working_hours[2] - 1) :
        /\ Weekday(DateOf(t)) < 5
        /\ \A k \in 1..Len(busy) :
             ~(AtHour(DateOf(t), h) < busy[k].end
               /\ AtHour(DateOf(t), h) + duration_minutes > busy[k].start)}}

\* the dates ranked for the last orchestrator call
RankedDates ==
  get_next_optimal_dates(ret.task, ret.cycle_data, SCHEDULE_DAYS_AHEAD, ret.today)

\* the free slot starts of the day of instant t in the last orchestrator call
FreeOfDate(t) ==
  FreeStarts(t, ret.task.estimated_duration, ret.working_hours, BusyOfDay(t))

\* the free slot starts of the i-th ranked date in the last orchestrator call
FreeOfRanked(i) == FreeOfDate(RankedDates[i][1])

\* C7: schedule_task_optimally returns None exactly when no ranked date has a
\* free slot, and it returns it as a value (it does not raise).
C7_NotFoundIffNoFreeSlot ==
  ret.op = "schedule_task_optimally" =>
    /\ ret.result.status # "raise"
    /\ (ret.result.status = "none") <=> (\A i \in 1..Len(RankedDates) : FreeOfRanked(i) = {})

\* C8: the slot schedule_task_optimally returns is the earliest free slot of
\* the first ranked date that has a free slot.
C8_FirstDateEarliestSlot ==
  (ret.op = "schedule_task_optimally" /\ ret.result.status = "ok") =>
    LET i == ret.result.rank_index
        ranked == RankedDates
    IN  /\ i \in 1..Len(ranked)
        /\ \A j \in 1..(i - 1) : FreeOfDate(ranked[j][1]) = {}
        /\ ret.result.scheduled_time \in FreeOfDate(ranked[i][1])
        /\ \A t \in FreeOfDate(ranked[i][1]) : ret.result.scheduled_time <= t
        /\ ret.result.end_time = ret.result.scheduled_time + ret.task.estimated_duration
        /\ ret.result.cycle_score = ranked[i][2]

\* C8 witness: a result on a date that is not ranked first, at an hour that
\* is not the first working hour
C8_Witness ==
  /\ Setting(30)
  /\ service
  /\ Cardinality(events) = 2
  /\ \A e \in events : e.fmt = "naive" /\ e.end <= AtHour(1, 11)
  /\ ret.op = "schedule_task_optimally"
  /\ ret.cal.ok
  /\ ret.working_hours = <<10, 12>>
  /\ ret.task.task_type = "analytical"
  /\ ret.result.status = "ok"
  /\ ret.result.calendar_event_id = NoId
  /\ ret.result.rank_index > 1
  /\ ret.result.scheduled_time >
       AtHour(DateOf(ret.result.scheduled_time), ret.working_hours[1])

\* the last call was find_available_slots for a single day, it returned, and
\* the calendar reported no busy interval
SingleDayNoBusy ==
  /\ ret.op = "find_available_slots"
  /\ DateOf(ret.start_date) = DateOf(ret.end_date)
  /\ ~ret.found.raised
  /\ ret.found.busy_times = <<>>

\* one slot per whole hour from start_hour to end_hour - 1, in ascending
\* order, each ending duration_minutes after its start
OneSlotPerHour ==
  /\ Len(ret.found.slots) = ret.working_hours[2] - ret.working_hours[1]
  /\ \A i \in 1..Len(ret.found.slots) :
       /\ ret.found.slots[i].start =
            AtHour(DateOf(ret.start_date), ret.working_hours[1] + i - 1)
       /\ ret.found.slots[i].end = ret.found.slots[i].start + ret.duration_minutes

\* C9 as stated: on a day with no busy interval find_available_slots returns
\* one slot per whole hour of the working window.
C9_OneSlotPerHour ==
  SingleDayNoBusy => OneSlotPerHour

\* C9 as amended: on a Monday-to-Friday day with no busy interval
\* find_available_slots returns one slot per whole hour of the working
\* window; on a Saturday or Sunday it returns no slot.
C9_OneSlotPerHourOnWeekdays ==
  SingleDayNoBusy =>
    IF Weekday(DateOf(ret.start_date)) < 5 THEN OneSlotPerHour
    ELSE ret.found.slots = <<>>

\* C9 witness: a weekday without busy intervals, searched over eight hours
C9_Witness ==
  /\ Setting(28)
  /\ ~service
  /\ events = {}
  /\ ret.op = "find_available_slots"
  /\ ret.duration_minutes = 60
  /\ SingleDayNoBusy
  /\ Weekday(DateOf(ret.start_date)) < 5
  /\ Len(ret.found.slots) = 8

\* the whole-hour candidates of the last find_available_slots call
CandidateStarts ==
  {AtHour(d, h) : d \in {d \in DateOf(ret.start_date)..DateOf(ret.end_date) : Weekday(d) < 5},
                  h \in ret.working_hours[1]..(ret.working_hours[2] - 1)}

\* C10: no slot find_available_slots returns overlaps a busy interval
\* (slot.start < busy.end and slot.end > busy.start), and every candidate
\* that overlaps none, also one that meets a busy interval at an endpoint,
\* is returned.
C10_OpenIntervalOverlap ==
  (ret.op = "find_available_slots" /\ ~ret.found.raised) =>
    LET busy == ret.found.busy_times
        slots == ret.found.slots
    IN  /\ \A i \in 1..Len(slots), k \in 1..Len(busy) :
             ~(slots[i].start < busy[k].end /\ slots[i].end > busy[k].start)
        /\ \A t \in CandidateStarts :
             (\A k \in 1..Len(busy) :
                t >= busy[k].end \/ t + ret.duration_minutes <= busy[k].start)
             => \E i \in 1..Len(slots) : slots[i].start = t

\* C10 witness: a returned slot that ends where a busy interval starts,
\* another that starts where it ends, and a candidate that was discarded
C10_Witness ==
  /\ Setting(28)
  /\ service
  /\ Cardinality(events) = 1
  /\ ret.op = "find_available_slots"
  /\ ~ret.found.raised
  /\ ret.duration_minutes = 60
  /\ ret.working_hours = DEFAULT_WORKING_HOURS
  /\ DateOf(ret.start_date) = DateOf(ret.end_date)
  /\ \E i, j \in 1..Len(ret.found.slots), k \in 1..Len(ret.found.busy_times) :
       /\ ret.found.slots[i].end = ret.found.busy_times[k].start
       /\ ret.found.slots[j].start = ret.found.busy_times[k].end
  /\ \E t \in CandidateStarts :
       \A i \in 1..Len(ret.found.slots) : ret.found.slots[i].start # t

\* whole days from the anchor date to the date of instant t
DeltaDays(cycle_data, t) == DateOf(t) - DateOf(cycle_data.last_period_start)

\* ((delta_days mod L) + L) mod L, made 1-based
WrappedCycleDay(delta_days, cycle_length) ==
  (((delta_days % cycle_length) + cycle_length) % cycle_length) + 1

\* C11: for every date, before or after the anchor date, the cycle day the
\* resolver computes is ((delta_days mod L) + L) mod L + 1, it lies in 1..L,
\* and one day before the anchor it is L; so for get_phase_for_date and for
\* get_current_phase.
C11_CycleDayWraps ==
  /\ ret.op = "get_phase_for_date" =>
       LET delta_days == DeltaDays(ret.cycle_data, ret.target_date)
       IN  /\ ret.cycle_day = WrappedCycleDay(delta_days, ret.cycle_data.cycle_length)
           /\ ret.cycle_day \in 1..ret.cycle_data.cycle_length
           /\ delta_days = -1 => ret.cycle_day = ret.cycle_data.cycle_length
  /\ ret.op = "get_current_phase" =>
       LET delta_days == DeltaDays(ret.cycle_data, ret.today)
       IN  /\ ret.cycle_day = WrappedCycleDay(delta_days, ret.cycle_data.cycle_length)
           /\ ret.cycle_day \in 1..ret.cycle_data.cycle_length
           /\ delta_days = -1 => ret.cycle_day = ret.cycle_data.cycle_length

\* C11 witness: the day before the anchor date resolved to cycle day L
C11_Witness ==
  /\ Setting(28)
  /\ ret.op = "get_phase_for_date"
  /\ ret.target_date = AtHour(-17, 23)
  /\ ret.cycle_day = 28
  /\ ret.phase = "luteal"

\* C12: resolving a date and resolving the date cycle_length days later
\* yield the same cycle day and the same phase, before and after the anchor.
C12_Periodic ==
  ret.op = "get_phase_for_date" =>
    LET later == ret.target_date + ret.cycle_data.cycle_length * MinutesPerDay
    IN  /\ CycleDayForDate(ret.cycle_data, later) = ret.cycle_day
        /\ get_phase_for_date(ret.cycle_data, later) = ret.phase

\* C12 witness: a date before the anchor whose image one cycle later lies
\* after the anchor
C12_Witness ==
  /\ Setting(30)
  /\ ret.op = "get_phase_for_date"
  /\ ret.target_date = AtHour(-20, 0)
  /\ ret.cycle_day = 27
  /\ ret.phase = "luteal"
  /\ ret.target_date + 30 * MinutesPerDay > ret.cycle_data.last_period_start

\* C13: a target on the anchor date resolves to cycle day 1 and to the
\* menstrual phase, whatever the cycle length and the times of day.
C13_AnchorDateIsDayOne ==
  (/\ ret.op = "get_phase_for_date"
   /\ DateOf(ret.target_date) = DateOf(ret.cycle_data.last_period_start))
  => (ret.cycle_day = 1 /\ ret.phase = "menstrual")

\* C13 witness: the anchor date resolved at an hour before the anchor's own
C13_Witness ==
  /\ Setting(35)
  /\ ret.op = "get_phase_for_date"
  /\ ret.target_date = AtHour(-16, 0)
  /\ ret.target_date < ret.cycle_data.last_period_start
  /\ ret.cycle_day = 1

\* C14: for a category with an affinity entry the score is
\* min(1.0, base*0.5 + (energy_level/10)*0.3 + (focus_level/10)*0.2
\*          + (priority-1)*0.1), base 0.8 when the date's phase is one of the
\* category's optimal phases and 0.3 otherwise, energy_level and focus_level
\* those of the phase profile (in hundredths below).
C14_ScoreFormula ==
  (ret.op = "score" /\ ret.task.task_type \in TaskType) =>
    LET phase == get_phase_for_date(ret.cycle_data, ret.target_date)
        affinity == CHOOSE a \in {TASK_OPTIMIZATIONS[i] : i \in 1..Len(TASK_OPTIMIZATIONS)} :
                      a.task_type = ret.task.task_type
        base == IF phase \in affinity.optimal_phases THEN 80 ELSE 30
        sum == (base \div 2) + PHASE_PROFILES[phase].energy_level * 3
               + PHASE_PROFILES[phase].focus_level * 2
               + (ret.task.priority - 1) * 10
    IN  ret.score = IF sum > 100 THEN 100 ELSE sum

\* C14 witness: a score where the phase's levels (5, 9) and the category's
\* nominal levels (8, 7) give different sums
C14_Witness ==
  /\ Setting(28)
  /\ ret.op = "score"
  /\ ret.task.task_type = "creative"
  /\ ret.task.priority = 1
  /\ ret.target_date = now
  /\ ret.score = 48

\* C15: every stored anchor has cycle_length in 21..35, period_length in
\* 3..8 and period_length <= cycle_length.
C15_StoredAnchorsValid ==
  \A u \in Users :
    user_cycles[u] # None =>
      /\ user_cycles[u].cycle_length \in CycleLengthMin..CycleLengthMax
      /\ user_cycles[u].period_length \in PeriodLengthMin..PeriodLengthMax
      /\ user_cycles[u].period_length <= user_cycles[u].cycle_length

\* the entries of a ranking as (calendar date, score) pairs
DatedScores(optimal_dates) ==
  [i \in 1..Len(optimal_dates) |-> <<DateOf(optimal_dates[i][1]), optimal_dates[i][2]>>]

\* C16: get_next_optimal_dates is a function of its arguments (task, anchor,
\* horizon): the same call made one day later on the clock returns the same
\* sequence of (date, score) entries.
C16_RankIndependentOfClock ==
  ret.op = "rank" =>
    DatedScores(get_next_optimal_dates(ret.task, ret.cycle_data, ret.days_ahead,
                                       ret.today + MinutesPerDay))
      = DatedScores(ret.optimal_dates)

\* C17: get_next_optimal_dates returns exactly min(days_ahead, 10) entries,
\* each on a calendar date of today .. today + days_ahead - 1, no date twice.
C17_RankSizeAndWindow ==
  ret.op = "rank" =>
    /\ Len(ret.optimal_dates) = (IF ret.days_ahead < 10 THEN ret.days_ahead ELSE 10)
    /\ \A i \in 1..Len(ret.optimal_dates) :
         /\ DateOf(ret.optimal_dates[i][1]) >= DateOf(ret.today)
         /\ DateOf(ret.optimal_dates[i][1]) <= DateOf(ret.today) + ret.days_ahead - 1
    /\ \A i, j \in 1..Len(ret.optimal_dates) :
         i # j => DateOf(ret.optimal_dates[i][1]) # DateOf(ret.optimal_dates[j][1])

\* C17 witness: ten entries out of a horizon of thirty days, the last of
\* them later than the tenth day
C17_Witness ==
  /\ Setting(28)
  /\ ret.op = "rank"
  /\ ret.task.task_type = "creative"
  /\ ret.task.priority = 1
  /\ ret.days_ahead = DEFAULT_DAYS_AHEAD
  /\ Len(ret.optimal_dates) = 10
  /\ \E i \in 1..Len(ret.optimal_dates) :
       DateOf(ret.optimal_dates[i][1]) > DateOf(ret.today) + 9

\* the last call could not read the calendar: no service, or the list
\* request failed
CalendarUnavailable == ~service \/ ~ret.cal.ok

\* C18: when the calendar cannot be read find_available_slots sees no busy
\* interval, does not raise and returns every whole-hour candidate of the
\* weekdays of its range; schedule_task_optimally then does not raise and
\* returns a slot exactly when some ranked date is a weekday with a
\* non-empty working window.
C18_UnavailableCalendarIsFree ==
  /\ (ret.op = "find_available_slots" /\ CalendarUnavailable) =>
       /\ ret.found.busy_times = <<>>
       /\ ~ret.found.raised
       /\ {ret.found.slots[i].start : i \in 1..Len(ret.found.slots)} = CandidateStarts
  /\ (ret.op = "schedule_task_optimally" /\ CalendarUnavailable) =>
       /\ ret.result.status # "raise"
       /\ (ret.result.status = "ok") <=>
            (/\ ret.working_hours[1] < ret.working_hours[2]
             /\ LET ranked == RankedDates
                IN  \E i \in 1..Len(ranked) : Weekday(DateOf(ranked[i][1])) < 5)

\* C18 witness: a calendar booked for three weeks whose list request fails,
\* and a slot returned all the same
C18_Witness ==
  /\ Setting(28)
  /\ service
  /\ Cardinality(events) = 1
  /\ \A e \in events : e.fmt = "naive" /\ e.end = AtHour(21, 0)
  /\ ret.op = "schedule_task_optimally"
  /\ ~ret.cal.ok
  /\ ret.working_hours = DEFAULT_WORKING_HOURS
  /\ ret.task.task_type = "analytical"
  /\ ret.result.status = "ok"
  /\ ret.result.scheduled_time = AtHour(0, 9)

\* C19: no slot find_available_slots returns and no slot
\* schedule_task_optimally returns lies on a Saturday or Sunday; the ranked
\* date a result is taken from is never a weekend day.
C19_NoWeekendSlot ==
  /\ ret.op = "find_available_slots" =>
       \A i \in 1..Len(ret.found.slots) :
         /\ Weekday(DateOf(ret.found.slots[i].start)) < 5
         /\ DateOf(ret.found.slots[i].start) \in DateOf(ret.start_date)..DateOf(ret.end_date)
  /\ (ret.op = "schedule_task_optimally" /\ ret.result.status = "ok") =>
       /\ Weekday(DateOf(ret.result.scheduled_time)) < 5
       /\ Weekday(DateOf(RankedDates[ret.result.rank_index][1])) < 5

\* C19 witness: the two best ranked dates are a Saturday and a Sunday, and
\* the result is taken from the third
C19_Witness ==
  /\ Setting(28)
  /\ ~service
  /\ events = {}
  /\ ret.op = "schedule_task_optimally"
  /\ ret.task.task_type = "reflection"
  /\ ret.working_hours = DEFAULT_WORKING_HOURS
  /\ ret.result.status = "ok"
  /\ Weekday(DateOf(RankedDates[1][1])) = 5
  /\ Weekday(DateOf(RankedDates[2][1])) = 6
  /\ ret.result.rank_index = 3

\* C20: in every scheduling result the reported phase is the phase resolved
\* for the date of the returned slot and the reported score is the score of
\* the task on that date; so for schedule_task_optimally and for
\* simple_backend.schedule_task.
C20_ReportedForSlotDate ==
  /\ (ret.op = "schedule_task_optimally" /\ ret.result.status = "ok") =>
       /\ ret.result.hormonal_phase
            = get_phase_for_date(ret.cycle_data, ret.result.scheduled_time)
       /\ ret.result.cycle_score
            = get_optimal_scheduling_score(ret.task, ret.result.scheduled_time, ret.cycle_data)
  /\ (ret.op = "simple_backend.schedule_task" /\ ret.status = 200) =>
       /\ ret.scheduling.hormonal_phase
            = get_phase_for_date(ret.cycle_data, ret.scheduling.scheduled_time)
       /\ ret.scheduling.cycle_score
            = get_optimal_scheduling_score(ret.task, ret.scheduling.scheduled_time,
                                           ret.cycle_data)

\* C23: for a task whose category has no entry in TASK_OPTIMIZATIONS,
\* get_optimal_scheduling_score returns the neutral 0.5 (50 hundredths),
\* whatever the date, the phase of the date and the priority, and every
\* entry of a ranking of such a task carries that score.
C23_UnknownCategoryIsNeutral ==
  /\ (ret.op = "score" /\ FindTaskOpt(ret.task.task_type) = 0) =>
       ret.score = NEUTRAL_SCORE
  /\ (ret.op = "rank" /\ FindTaskOpt(ret.task.task_type) = 0) =>
       \A i \in 1..Len(ret.optimal_dates) : ret.optimal_dates[i][2] = NEUTRAL_SCORE

\* C23 witness: an unlisted category scored at the highest priority on a
\* luteal date, where the category "analytical" scores 1.0
C23_Witness ==
  /\ Setting(28)
  /\ ret.op = "score"
  /\ ret.task.task_type \notin TaskType
  /\ ret.task.priority = 5
  /\ ret.target_date = now
  /\ get_phase_for_date(ret.cycle_data, ret.target_date) = "luteal"
  /\ get_optimal_scheduling_score([ret.task EXCEPT !.task_type = "analytical"],
                                  ret.target_date, ret.cycle_data) = 100
  /\ ret.score = NEUTRAL_SCORE

\* C24: when the cycle day of a resolver call lies in no day_range the call
\* returns "luteal", and no call of get_phase_for_date or get_current_phase
\* on a valid anchor ever computes such a cycle day.
C24_FallbackUnreachable ==
  (ret.op = "get_phase_for_date" \/ ret.op = "get_current_phase") =>
    /\ PhasesOfDay(ret.cycle_day) = {} => ret.phase = "luteal"
    /\ PhasesOfDay(ret.cycle_day) # {}

\* the dates of the window of the last ranking (today .. today + days_ahead - 1)
WindowDates == {ret.today + k * MinutesPerDay : k \in 0..(ret.days_ahead - 1)}

\* the dates of that window whose phase is one of the optimal phases of the
\* ranked task's category
OptimalWindowDates ==
  LET optimal_phases == TASK_OPTIMIZATIONS[FindTaskOpt(ret.task.task_type)].optimal_phases
  IN  {d \in WindowDates : get_phase_for_date(ret.cycle_data, d) \in optimal_phases}

\* C25: for a task of a listed category, every date of the ranked window
\* whose phase is one of the category's optimal phases scores at least as
\* high as every date whose phase is not, and the first entry of the ranking
\* is a date in an optimal phase whenever the window holds one.
C25_AffinityDominates ==
  (ret.op = "rank" /\ ret.task.task_type \in TaskType) =>
    LET optimal == OptimalWindowDates
        OptScores == {get_optimal_scheduling_score(ret.task, d, ret.cycle_data) : d \in optimal}
        NonScores == {get_optimal_scheduling_score(ret.task, d, ret.cycle_data) :
                        d \in WindowDates \ optimal}
    IN  /\ \A a \in OptScores, b \in NonScores : a >= b
        /\ optimal # {} => ret.optimal_dates[1][1] \in optimal

\* C25 witness: "reflection" ranked over 14 days that are luteal except for
\* the last two; the luteal profile has the higher energy and focus terms
\* (0.33 against 0.21), yet a menstrual date comes first (0.61 against 0.48)
C25_Witness ==
  /\ Setting(28)
  /\ ret.op = "rank"
  /\ ret.task.task_type = "reflection"
  /\ ret.task.priority = 1
  /\ ret.days_ahead = SCHEDULE_DAYS_AHEAD
  /\ ret.optimal_dates[1] = <<now + 12 * MinutesPerDay, 61>>
  /\ get_phase_for_date(ret.cycle_data, ret.optimal_dates[1][1]) = "menstrual"
  /\ ret.optimal_dates[3] = <<now, 48>>
  /\ get_phase_for_date(ret.cycle_data, now) = "luteal"

\* C29: the three resolvers agree.  For the date d of a get_phase_for_date
\* call, before the anchor or after it, HormonalCycleManager.get_current_phase
\* and simple_backend.get_current_phase evaluated on a day whose date is d
\* return the phase the call returned; and a get_current_phase call returns
\* what the other two return for today.
C29_ResolversAgree ==
  /\ ret.op = "get_phase_for_date" =>
       /\ get_current_phase(ret.cycle_data, ret.target_date) = ret.phase
       /\ simple_get_current_phase(ret.cycle_data, ret.target_date) = ret.phase
  /\ ret.op = "get_current_phase" =>
       /\ get_phase_for_date(ret.cycle_data, ret.today) = ret.phase
       /\ simple_get_current_phase(ret.cycle_data, ret.today) = ret.phase

\* C29 witness: a date four days before the anchor date, cycle day 25 of the
\* cycle before: all three resolvers say luteal
C29_Witness ==
  /\ Setting(28)
  /\ ret.op = "get_phase_for_date"
  /\ ret.target_date = AtHour(-20, 23)
  /\ ret.target_date < ret.cycle_data.last_period_start
  /\ ret.cycle_day = 25
  /\ ret.phase = "luteal"
  /\ get_current_phase(ret.cycle_data, ret.target_date) = "luteal"
  /\ simple_get_current_phase(ret.cycle_data, ret.target_date) = "luteal"

\* C26: every slot find_available_slots returns lies inside the working
\* window of its day: it starts at or after start_hour:00 and ends at or
\* before end_hour:00.
C26_SlotInsideWorkingWindow ==
  ret.op = "find_available_slots" =>
    \A i \in 1..Len(ret.found.slots) :
      LET slot == ret.found.slots[i]
      IN  /\ AtHour(DateOf(slot.start), ret.working_hours[1]) <= slot.start
          /\ slot.end = slot.start + ret.duration_minutes
          /\ slot.end <= AtHour(DateOf(slot.start), ret.working_hours[2])

\* C28: the slot schedule_task_optimally returns does not start before the
\* instant at which it was called; working hours of today that have passed
\* are not offered.
C28_SlotNotBeforeNow ==
  (ret.op = "schedule_task_optimally" /\ ret.result.status = "ok") =>
    ret.today <= ret.result.scheduled_time

\* C21: the day_in_cycle a current-phase request reports lies in
\* 1..cycle_length and is the cycle day the reported phase was derived from.
C21_DayInCycleIsCycleDay ==
  ((ret.op = "main.get_current_phase" \/ ret.op = "simple_backend.get_current_phase_info")
     /\ ret.status = 200) =>
    /\ ret.day_in_cycle \in 1..ret.cycle_data.cycle_length
    /\ ret.day_in_cycle = CurrentCycleDay(ret.cycle_data, ret.today)
    /\ ret.phase = PhaseOfCycleDay(ret.day_in_cycle)

\* C22: every task in the task store has an id and a scheduled_at (neither
\* absent), with the calendar service available or not.
C22_StoredTaskHasIdAndTime ==
  \A u \in Users :
    \A i \in 1..Len(user_tasks[u]) :
      /\ user_tasks[u][i].id # NoId
      /\ user_tasks[u][i].scheduled_at # Unscheduled

\* C27: no two stored tasks of one user occupy overlapping intervals
\* [scheduled_at, scheduled_at + estimated_duration).
C27_StoredTasksDisjoint ==
  \A u \in Users :
    \A i, j \in 1..Len(user_tasks[u]) :
      i < j =>
        LET a == user_tasks[u][i]
            b == user_tasks[u][j]
        IN  \/ a.scheduled_at + a.estimated_duration <= b.scheduled_at
            \/ b.scheduled_at + b.estimated_duration <= a.scheduled_at

\* C30: a schedule request that fails (no anchor stored, no slot found, an
\* exception) leaves the task store as it was; a successful one appends
\* exactly one task, the one it reports, at the slot the orchestrator
\* returned; and the task store changes in no other step.
C30_StoreChangesOnSuccessOnly ==
  [][ /\ (ret.op = "idle" /\ ret'.op = "schedule_task") =>
           IF ret'.status = 200
           THEN /\ ret'.scheduling.status = "ok"
                /\ ret'.task.scheduled_at = ret'.scheduling.scheduled_time
                /\ \E u \in Users :
                     user_tasks' = [user_tasks EXCEPT ![u] = Append(@, ret'.task)]
           ELSE user_tasks' = user_tasks
      /\ (ret.op = "idle" /\ ret'.op = "simple_backend.schedule_task") =>
           IF ret'.status = 200
           THEN \E u \in Users :
                  user_tasks' = [user_tasks EXCEPT ![u] = Append(@, ret'.task)]
           ELSE user_tasks' = user_tasks
      /\ user_tasks' # user_tasks =>
           /\ ret'.op \in {"schedule_task", "simple_backend.schedule_task"}
           /\ ret'.status = 200 ]_vars

\* C30 witness: after one task was stored a second request finds no slot
\* (the calendar is busy for the whole horizon) and the store still holds
\* the one task
C30_Witness ==
  /\ ret.op = "schedule_task"
  /\ ret.status = 500
  /\ ret.detail = "Could not find optimal scheduling slot"
  /\ Len(user_tasks["u1"]) = 1
  /\ user_tasks["u1"][1].scheduled_at # Unscheduled

====
